---------------------------- MODULE Spec2Model ----------------------------
(***************************************************************************)
(* CalendarService of src/agents.py: find_available_slots (the slot scan   *)
(* over the free/busy answer) and create_event (the bounded retry around   *)
(* events.insert).                                                         *)
(*                                                                         *)
(* Time is counted in minutes from 00:00 UTC of the day the call is made   *)
(* (day 0).  A datetime is such a minute count; a parsed busy bound also   *)
(* carries whether the parsed value is timezone-aware.                     *)
(***************************************************************************)
EXTENDS Integers, Sequences, FiniteSets, TLC

(* ------------------------------ bounds -------------------------------- *)
\* longest busy list the free/busy answer carries
MaxBusy == 2
\* largest days_ahead a call is made with
MaxDays == 2

(* ------------------------- program constants -------------------------- *)
WindowOpen == 600
WindowClose == 1020
Step == 15
WeekendFrom == 5
max_retries == 3
DayMinutes == 24 * 60

(* ------------------------------ inputs -------------------------------- *)
\* time of day at which the call is made (09:00 and 12:00)
NowChoices == {540, 720}
\* duration_minutes: int, nothing in the code restricts it
Durations == {-1020, 0, 60, 420, 435}
DaysChoices == (-1)..MaxDays
\* entries of the backend's busy list: ISO strings that end in "Z" or carry
\* no offset at all
BusyChoices ==
    { [start |-> iv[1], end |-> iv[2], tz |-> z] :
        iv \in { <<600, 660>>, <<630, 1020>>, <<2040, 2100>> }, z \in {"Z", ""} }
BusyLists == UNION { [1..n -> BusyChoices] : n \in 0..MaxBusy }
\* start_time / end_time strings of an event (10:00, 11:00)
EventTimes == {600, 660}
\* what events.insert answers: hangoutLink / attendees may be missing
BackendEvents ==
    { [htmlLink |-> "link", hangoutLink |-> h, id |-> "id", attendees |-> a] :
        h \in {"meet", "None"}, a \in {"absent", "needsAction", "accepted"} }

VARIABLES
    call,               \* which public operation this behaviour runs
    \* ---- find_available_slots
    pc,                 \* position in find_available_slots
    now,                \* time of day of datetime.utcnow()
    weekday0,           \* current_date.weekday(), Monday = 0
    duration_minutes,
    days_ahead,
    freebusy_query,     \* the timeMin/timeMax sent, <<>> before the query
    query_calls,        \* number of freebusy().query().execute() calls
    freebusy_result,    \* "none", then "ok" or "error" as execute() ended
    busy_slots,
    day,
    slot_start,
    available_slots,
    result,             \* what find_available_slots returned
    \* ---- create_event
    state,              \* booking state
    event_details,
    retry_count,
    created_event,
    notifications_sent,
    insert_calls,       \* number of events().insert().execute() calls
    history,            \* outcome of each insert call, in order
    sleeps,             \* argument of each time.sleep call, in order
    response            \* what create_event returned

findVars == <<pc, now, weekday0, duration_minutes, days_ahead, freebusy_query,
              query_calls, freebusy_result, busy_slots, day, slot_start, available_slots, result>>
bookVars == <<state, event_details, retry_count, created_event,
              notifications_sent, insert_calls, history, sleeps, response>>
vars == <<call, findVars, bookVars>>

(* ---------------------- find_available_slots -------------------------- *)
NoResult == [kind |-> "pending", available_slots |-> <<>>,
             selected_slot |-> <<>>, notes |-> [text |-> "", n |-> 0]]

TimeSlot(s, e) == [start |-> s, end |-> e]

AvailableSlotsResponse(slots, selected, notes) ==
    [kind |-> "returned", available_slots |-> slots,
     selected_slot |-> selected, notes |-> notes]

\* datetime.fromisoformat(s.replace('Z', '+00:00')): an offset makes the
\* value timezone-aware, a string without one parses to a naive value
fromisoformat(t, tz) == [t |-> t, aware |-> tz # ""]

weekday(d) == (weekday0 + d) % 7

\* variant: only Sunday is skipped
IsWeekendSundayOnly(d) == weekday(d) > WeekendFrom

IsWeekend(d) == weekday(d) >= WeekendFrom

start_time(d) == d * DayMinutes + WindowOpen
end_time(d) == d * DayMinutes + WindowClose

\* variant: a slot is busy only when it starts inside the busy interval
OverlapsStartInside(s, e, busy_start, busy_end) == busy_start <= s /\ s < busy_end

Overlaps(s, e, busy_start, busy_end) == ~(e <= busy_start \/ s >= busy_end)

\* the loop over busy_slots for one slot; slot_start and slot_end are naive,
\* and ordering a naive against an aware datetime raises TypeError
RECURSIVE CheckBusy(_, _, _, _)
CheckBusy(s, e, busy, i) ==
    IF i > Len(busy) THEN "free"
    ELSE LET busy_start == fromisoformat(busy[i].start, busy[i].tz)
             busy_end == fromisoformat(busy[i].end, busy[i].tz)
         IN  IF busy_start.aware \/ busy_end.aware THEN "raise"
             ELSE IF Overlaps(s, e, busy_start.t, busy_end.t) THEN "busy"
             ELSE CheckBusy(s, e, busy, i + 1)

ErrorResult == AvailableSlotsResponse(<<>>, <<>>, [text |-> "Error finding slots", n |-> 0])

QueryOk ==
    /\ call = "find_available_slots" /\ pc = "query"
    /\ freebusy_query' = <<[timeMin |-> now, timeMax |-> now + days_ahead * DayMinutes]>>
    /\ query_calls' = query_calls + 1
    /\ freebusy_result' = "ok"
    /\ \E b \in BusyLists : busy_slots' = b
    /\ available_slots' = <<>>
    /\ day' = 0
    /\ pc' = "for"
    /\ UNCHANGED <<call, now, weekday0, duration_minutes, days_ahead, slot_start,
                   result, bookVars>>

QueryFail ==
    /\ call = "find_available_slots" /\ pc = "query"
    /\ freebusy_query' = <<[timeMin |-> now, timeMax |-> now + days_ahead * DayMinutes]>>
    /\ query_calls' = query_calls + 1
    /\ freebusy_result' = "error"
    /\ result' = ErrorResult
    /\ pc' = "done"
    /\ UNCHANGED <<call, now, weekday0, duration_minutes, days_ahead, busy_slots,
                   day, slot_start, available_slots, bookVars>>

SkipWeekend ==
    /\ pc = "for" /\ day < days_ahead
    /\ IsWeekend(day)
    /\ day' = day + 1
    /\ UNCHANGED <<call, pc, now, weekday0, duration_minutes, days_ahead,
                   freebusy_query, query_calls, freebusy_result, busy_slots, slot_start,
                   available_slots, result, bookVars>>

EnterDay ==
    /\ pc = "for" /\ day < days_ahead
    /\ ~IsWeekend(day)
    /\ slot_start' = start_time(day)
    /\ pc' = "while"
    /\ UNCHANGED <<call, now, weekday0, duration_minutes, days_ahead,
                   freebusy_query, query_calls, freebusy_result, busy_slots, day,
                   available_slots, result, bookVars>>

SlotFits == slot_start + duration_minutes <= end_time(day)

SlotFree ==
    /\ pc = "while" /\ SlotFits
    /\ LET slot_end == slot_start + duration_minutes
       IN  /\ CheckBusy(slot_start, slot_end, busy_slots, 1) = "free"
           /\ available_slots' = Append(available_slots, TimeSlot(slot_start, slot_end))
    /\ slot_start' = slot_start + Step
    /\ UNCHANGED <<call, pc, now, weekday0, duration_minutes, days_ahead,
                   freebusy_query, query_calls, freebusy_result, busy_slots, day, result, bookVars>>

SlotBusy ==
    /\ pc = "while" /\ SlotFits
    /\ CheckBusy(slot_start, slot_start + duration_minutes, busy_slots, 1) = "busy"
    /\ slot_start' = slot_start + Step
    /\ UNCHANGED <<call, pc, now, weekday0, duration_minutes, days_ahead,
                   freebusy_query, query_calls, freebusy_result, busy_slots, day,
                   available_slots, result, bookVars>>

SlotRaise ==
    /\ pc = "while" /\ SlotFits
    /\ CheckBusy(slot_start, slot_start + duration_minutes, busy_slots, 1) = "raise"
    /\ result' = ErrorResult
    /\ pc' = "done"
    /\ UNCHANGED <<call, now, weekday0, duration_minutes, days_ahead,
                   freebusy_query, query_calls, freebusy_result, busy_slots, day, slot_start,
                   available_slots, bookVars>>

DayDone ==
    /\ pc = "while" /\ ~SlotFits
    /\ day' = day + 1
    /\ pc' = "for"
    /\ UNCHANGED <<call, now, weekday0, duration_minutes, days_ahead,
                   freebusy_query, query_calls, freebusy_result, busy_slots, slot_start,
                   available_slots, result, bookVars>>

ReturnNone ==
    /\ pc = "for" /\ ~(day < days_ahead)
    /\ available_slots = <<>>
    /\ result' = AvailableSlotsResponse(<<>>, <<>>,
                     [text |-> "No available slots found", n |-> days_ahead])
    /\ pc' = "done"
    /\ UNCHANGED <<call, now, weekday0, duration_minutes, days_ahead,
                   freebusy_query, query_calls, freebusy_result, busy_slots, day, slot_start,
                   available_slots, bookVars>>

ReturnFound ==
    /\ pc = "for" /\ ~(day < days_ahead)
    /\ available_slots # <<>>
    /\ result' = AvailableSlotsResponse(available_slots, <<available_slots[1]>>,
                     [text |-> "Found", n |-> Len(available_slots)])
    /\ pc' = "done"
    /\ UNCHANGED <<call, now, weekday0, duration_minutes, days_ahead,
                   freebusy_query, query_calls, freebusy_result, busy_slots, day, slot_start,
                   available_slots, bookVars>>

NextFind ==
    \/ QueryOk \/ QueryFail \/ SkipWeekend \/ EnterDay \/ SlotFree \/ SlotBusy
    \/ SlotRaise \/ DayDone \/ ReturnNone \/ ReturnFound



(* ------------------- properties of find_available_slots --------------- *)
Returned == call = "find_available_slots" /\ result.kind = "returned"

Slots == { result.available_slots[i] : i \in 1..Len(result.available_slots) }
Busy == { busy_slots[j] : j \in 1..Len(busy_slots) }

\* C1: every returned slot [s, e) is disjoint from every busy interval [c, d)
\* of the free/busy answer under the half-open rule: e <= c or s >= d; a slot
\* that only abuts a busy interval is kept.
C1_SlotsDisjointFromBusy ==
    \A slot \in Slots : \A b \in Busy : slot.end <= b.start \/ slot.start >= b.end

\* a returned slot begins exactly where a busy interval ends
C1_Witness ==
    /\ Returned
    /\ \E slot \in Slots : \E b \in Busy : slot.start = b.end /\ slot.start < slot.end

\* the days the call searches: in range and neither Saturday nor Sunday
SearchedDays == { d \in 0..(days_ahead - 1) : (weekday0 + d) % 7 \notin {5, 6} }

\* C2: every returned slot starts at or after 10:00 and ends at or before
\* 17:00 of one day that is inside [today, today + days_ahead) and is not a
\* Saturday or Sunday.
C2_SlotsInsideWindow ==
    \A slot \in Slots :
        \E d \in SearchedDays :
            /\ slot.start >= d * DayMinutes + WindowOpen
            /\ slot.end <= d * DayMinutes + WindowClose

\* slots were returned from a range that holds a weekend day
C2_Witness ==
    /\ Returned /\ Slots # {}
    /\ \E d \in 0..(days_ahead - 1) : (weekday0 + d) % 7 \in {5, 6}
    /\ \E d \in 0..(days_ahead - 1) : (weekday0 + d) % 7 \notin {5, 6}

\* the step-aligned slots of the searched days that overlap no busy interval
AlignedFreeSlots ==
    { TimeSlot(dk[1] * DayMinutes + WindowOpen + dk[2] * Step,
               dk[1] * DayMinutes + WindowOpen + dk[2] * Step + duration_minutes) :
        dk \in { x \in SearchedDays \X (0..100) :
                   LET s == x[1] * DayMinutes + WindowOpen + x[2] * Step
                       e == s + duration_minutes
                   IN  /\ e <= x[1] * DayMinutes + WindowClose
                       /\ \A b \in Busy : e <= b.start \/ s >= b.end } }

EarliestFree == CHOOSE f \in AlignedFreeSlots : \A g \in AlignedFreeSlots : f.start <= g.start

\* C3: for a well-formed request whose free/busy answer is in hand, the selected slot is the earliest
\* step-aligned slot of a searched day that fits the window and overlaps no
\* busy interval, and there is no selected slot exactly when no such slot
\* exists (busy [10:00,11:00), 60 minutes: [11:00,12:00)).
C3_SelectedIsEarliestFree ==
    (Returned /\ freebusy_result = "ok" /\ duration_minutes > 0 /\ days_ahead > 0) =>
        IF AlignedFreeSlots = {} THEN result.selected_slot = <<>>
        ELSE result.selected_slot = <<EarliestFree>>

\* C6: a request with a non-positive duration or with days_ahead <= 0 is
\* answered with an InvalidRequest signal and no slots, and no returned slot
\* ever has start >= end.
C6_MalformedRequestRejected ==
    /\ (Returned /\ freebusy_result = "ok"
            /\ (duration_minutes <= 0 \/ days_ahead <= 0)) =>
           (result.notes.text = "InvalidRequest" /\ result.available_slots = <<>>)
    /\ \A slot \in Slots : slot.start < slot.end

\* C7: the returned slots are strictly increasing in start time, so none
\* appears twice.
C7_SlotsStrictlyIncreasing ==
    \A i \in 1..(Len(result.available_slots) - 1) :
        result.available_slots[i].start < result.available_slots[i + 1].start

\* C10: every returned slot lies inside [timeMin, timeMax) of the free/busy
\* query that was sent.
C10_SlotsInsideQueriedRange ==
    \A slot \in Slots :
        \A q \in { freebusy_query[i] : i \in 1..Len(freebusy_query) } :
            q.timeMin <= slot.start /\ slot.end <= q.timeMax

(* --------------------------- create_event ----------------------------- *)
NoResponse == [status |-> "pending", event_link |-> "None", meet_link |-> "None",
               event_id |-> "None", error_message |-> "None"]

NoEvent == [htmlLink |-> "None", hangoutLink |-> "None", id |-> "None",
            attendees |-> "absent"]

CalendarEventResponse(status, event_link, meet_link, event_id, error_message) ==
    [status |-> status, event_link |-> event_link, meet_link |-> meet_link,
     event_id |-> event_id, error_message |-> error_message]

\* CalendarEventDetails(**event_details): pydantic checks the fields and
\* their types; start_time and end_time are plain strings, never compared
CalendarEventDetailsValid(d) == d.schema_ok

ErrorResponse(msg) == CalendarEventResponse("error", "None", "None", "None", msg)

\* details = CalendarEventDetails(**event_details) raises ValidationError
RejectDetails ==
    /\ call = "create_event" /\ state = "Pending"
    /\ ~CalendarEventDetailsValid(event_details)
    /\ response' = ErrorResponse("validation error")
    /\ state' = "Invalid"
    /\ UNCHANGED <<call, findVars, event_details, retry_count, created_event,
                   notifications_sent, insert_calls, history, sleeps>>

\* the payload is built and the retry loop is entered
BuildEvent ==
    /\ call = "create_event" /\ state = "Pending"
    /\ CalendarEventDetailsValid(event_details)
    /\ retry_count' = 0
    /\ created_event' = NoEvent
    /\ notifications_sent' = FALSE
    /\ state' = IF 0 < max_retries THEN "Submitting" ELSE "FailedExhausted"
    /\ UNCHANGED <<call, findVars, event_details, insert_calls, history, sleeps,
                   response>>

\* variant: the break after a successful insert is missing
InsertOkNoBreak ==
    /\ state = "Submitting"
    /\ insert_calls' = insert_calls + 1
    /\ history' = Append(history, "ok")
    /\ \E ev \in BackendEvents : created_event' = ev
    /\ notifications_sent' = TRUE
    /\ state' = "Submitting"
    /\ UNCHANGED <<call, findVars, event_details, retry_count, sleeps, response>>

\* events().insert(...).execute() answers; break
InsertOk ==
    /\ state = "Submitting"
    /\ insert_calls' = insert_calls + 1
    /\ history' = Append(history, "ok")
    /\ \E ev \in BackendEvents : created_event' = ev
    /\ notifications_sent' = TRUE
    /\ state' = "Succeeded"
    /\ UNCHANGED <<call, findVars, event_details, retry_count, sleeps, response>>

\* variant: the handler never re-raises, it always backs off
InsertFailAlwaysBackoff ==
    /\ state = "Submitting"
    /\ insert_calls' = insert_calls + 1
    /\ history' = Append(history, "fail")
    /\ retry_count' = retry_count + 1
    /\ state' = "Retrying"
    /\ UNCHANGED <<call, findVars, event_details, created_event,
                   notifications_sent, sleeps, response>>

\* events().insert(...).execute() raises; the last failure is re-raised
InsertFail ==
    /\ state = "Submitting"
    /\ insert_calls' = insert_calls + 1
    /\ history' = Append(history, "fail")
    /\ retry_count' = retry_count + 1
    /\ state' = IF retry_count' = max_retries THEN "FailedExhausted" ELSE "Retrying"
    /\ UNCHANGED <<call, findVars, event_details, created_event,
                   notifications_sent, sleeps, response>>

\* time.sleep(2 ** retry_count), then the loop condition; leaving the loop
\* with created_event = None makes line 249 raise into the outer handler
Backoff ==
    /\ state = "Retrying"
    /\ sleeps' = Append(sleeps, 2 ^ retry_count)
    /\ state' = IF retry_count < max_retries THEN "Submitting" ELSE "FailedExhausted"
    /\ UNCHANGED <<call, findVars, event_details, retry_count, created_event,
                   notifications_sent, insert_calls, history, response>>

ReturnSuccess ==
    /\ state = "Succeeded" /\ response.status = "pending"
    /\ response' = CalendarEventResponse("success", created_event.htmlLink,
                       created_event.hangoutLink, created_event.id, "None")
    /\ UNCHANGED <<call, findVars, state, event_details, retry_count,
                   created_event, notifications_sent, insert_calls, history, sleeps>>

\* variant: the re-raised failure is not caught by an outer handler
ReturnErrorEscapes ==
    /\ state = "FailedExhausted" /\ response.status = "pending"
    /\ state' = "raised"
    /\ UNCHANGED <<call, findVars, event_details, retry_count, created_event,
                   notifications_sent, insert_calls, history, sleeps, response>>

\* the outer handler turns the re-raised failure into an error response
ReturnError ==
    /\ state = "FailedExhausted" /\ response.status = "pending"
    /\ response' = ErrorResponse("insert failed")
    /\ UNCHANGED <<call, findVars, state, event_details, retry_count,
                   created_event, notifications_sent, insert_calls, history, sleeps>>

NextBook ==
    \/ RejectDetails \/ BuildEvent \/ InsertOk \/ InsertFail \/ Backoff
    \/ ReturnSuccess \/ ReturnError


(* ----------------------- properties of create_event ------------------- *)
Range(h) == { h[i] : i \in 1..Len(h) }

AllFailed(h) == \A i \in 1..Len(h) : h[i] = "fail"

\* C4: one call of create_event invokes events.insert at most 3 times, and
\* exactly once, never again, when the first invocation succeeds.
C4_RetryBound ==
    /\ insert_calls <= 3
    /\ (history # <<>> /\ history[1] = "ok") => insert_calls = 1

\* events.insert failed every time: three invocations, then the error response
C4_Witness ==
    /\ insert_calls = 3 /\ AllFailed(history)
    /\ response.status = "error"

\* C5: an event whose start is not before its end is answered with a
\* failure and events.insert is never invoked for it.
C5_EmptyEventRejected ==
    (call = "create_event" /\ event_details.start_time >= event_details.end_time) =>
        /\ insert_calls = 0
        /\ response.status \in {"pending", "error"}

\* C8: no failure leaves a public operation as an exception.  A failed
\* free/busy query is made once and answered with no slots, no selected slot
\* and an error note; malformed event details or three failed insertions are
\* answered with status error, an error message and no success field.
C8_FailuresAreReturned ==
    /\ pc # "raised" /\ state # "raised"
    /\ freebusy_result = "error" =>
           /\ query_calls = 1
           /\ result.kind = "returned"
           /\ result.available_slots = <<>> /\ result.selected_slot = <<>>
           /\ result.notes.text = "Error finding slots"
    /\ (state = "Invalid" \/ (response.status # "pending" /\ "ok" \notin Range(history))) =>
           /\ response.status = "error"
           /\ response.error_message # "None"
           /\ response.event_link = "None" /\ response.meet_link = "None"
           /\ response.event_id = "None"
    /\ (call = "create_event" /\ ~event_details.schema_ok) => state \in {"Pending", "Invalid"}

\* the free/busy query failed and find_available_slots answered
C8_Witness ==
    /\ freebusy_result = "error" /\ query_calls = 1
    /\ result.kind = "returned" /\ result.notes.text = "Error finding slots"

Terminal == state \in {"Succeeded", "FailedExhausted"}

\* C9: a booking that starts submitting ends in exactly one of Succeeded and
\* FailedExhausted and stays there; Succeeded exactly when an invocation
\* among the first three succeeded after only failures, FailedExhausted
\* exactly when three invocations failed in a row; Retrying is entered only
\* from a failed submission with budget left and leads back to Submitting;
\* nothing is submitted and no backoff is slept once a terminal state is
\* reached.
C9_BookingStateMachine ==
    /\ (state = "Submitting") ~> Terminal
    /\ (state = "Retrying") ~> (state = "Submitting")
    /\ [](state = "Succeeded" <=>
            /\ history # <<>> /\ Len(history) <= 3
            /\ history[Len(history)] = "ok"
            /\ AllFailed(SubSeq(history, 1, Len(history) - 1)))
    /\ [](state = "FailedExhausted" <=> (Len(history) = 3 /\ AllFailed(history)))
    /\ [][Terminal => /\ state' = state /\ insert_calls' = insert_calls
                      /\ history' = history /\ sleeps' = sleeps]_vars
    /\ [][(state' = "Retrying" /\ state # "Retrying") =>
              /\ state = "Submitting"
              /\ history' = Append(history, "fail")
              /\ Len(history') < 3]_vars
    /\ [][(state = "Retrying" /\ state' # "Retrying") => state' = "Submitting"]_vars

\* two failed submissions, two backoffs, then the third submission succeeds
C9_Witness ==
    /\ state = "Succeeded" /\ history = <<"fail", "fail", "ok">>
    /\ sleeps = <<2, 4>> /\ response.status = "success"

(* --------------------------- specification ---------------------------- *)
IdleFind ==
    /\ pc = "idle" /\ now = 540 /\ weekday0 = 0 /\ duration_minutes = 60
    /\ days_ahead = 0 /\ freebusy_query = <<>> /\ query_calls = 0
    /\ freebusy_result = "none"
    /\ busy_slots = <<>> /\ day = 0 /\ slot_start = 0
    /\ available_slots = <<>> /\ result = NoResult

IdleBook ==
    /\ state = "idle"
    /\ event_details = [schema_ok |-> TRUE, start_time |-> 600, end_time |-> 660]
    /\ retry_count = 0 /\ created_event = NoEvent /\ notifications_sent = FALSE
    /\ insert_calls = 0 /\ history = <<>> /\ sleeps = <<>>
    /\ response = NoResponse

InitFind ==
    /\ call = "find_available_slots"
    /\ pc = "query"
    /\ now \in NowChoices
    /\ weekday0 \in 0..6
    /\ duration_minutes \in Durations
    /\ days_ahead \in DaysChoices
    /\ freebusy_query = <<>> /\ query_calls = 0
    /\ freebusy_result = "none"
    /\ busy_slots = <<>> /\ day = 0 /\ slot_start = 0
    /\ available_slots = <<>> /\ result = NoResult
    /\ IdleBook

InitBook ==
    /\ call = "create_event"
    /\ state = "Pending"
    /\ event_details \in [schema_ok : BOOLEAN, start_time : EventTimes,
                          end_time : EventTimes]
    /\ retry_count = 0 /\ created_event = NoEvent /\ notifications_sent = FALSE
    /\ insert_calls = 0 /\ history = <<>> /\ sleeps = <<>>
    /\ response = NoResponse
    /\ IdleFind

Init == InitFind \/ InitBook

Next == NextFind \/ NextBook

Spec == Init /\ [][Next]_vars

\* create_event alone; every step of it is a blocking call that returns or
\* a sleep that ends, so an enabled step is eventually taken
BookSpec == InitBook /\ [][NextBook]_vars /\ WF_vars(NextBook)

============================================================================
